---- MODULE Spec2Model ----
(***************************************************************************)
(* Voice engine, render loop and waveforms of the polygon synthesizer      *)
(* (src/src/engine.rs, src/src/synthesis.rs, src/src/util.rs,              *)
(* src/src/maths.rs, src/src/vec2.rs).                                     *)
(*                                                                         *)
(* f32 values are modelled as exact rationals <<numerator, denominator>>   *)
(* in lowest terms with a positive denominator: the arithmetic is the      *)
(* source's, without f32 rounding.  Durations are rationals in seconds.    *)
(***************************************************************************)
EXTENDS Integers, Sequences, FiniteSets, TLC

\* ------------------------------------------------------------------------
\* Bounds of the model
\* ------------------------------------------------------------------------
\* Messages the input thread sends in one behaviour.
MaxSent == 3
\* Largest value of the global sample counter.
MaxSample == 2
\* Largest number of stereo frames of one output buffer.
MaxFrames == 2
\* Largest sample count an envelope on its own is followed to.
MaxEnvSample == 5
\* Largest value of the sample counter when one note is followed from its
\* NoteOn to the end of its release.
MaxCycleSample == 4
\* Largest sample count the waveform functions are followed to.
MaxWaveSample == 4

\* ------------------------------------------------------------------------
\* Program constants
\* ------------------------------------------------------------------------
\* crate::constants::MAX_VOICES (the constants module is not among the
\* sources; the model keeps the pool small).
MAX_VOICES == 2
\* wmidi::Note::C0, the note every voice is constructed with.
C0 == 12
\* Largest MIDI velocity (U7), the divisor of handle_midi_input.
U7_MAX == 127

\* ------------------------------------------------------------------------
\* Exact rational arithmetic standing for f32
\* ------------------------------------------------------------------------
Abs(x) == IF x < 0 THEN -x ELSE x

RECURSIVE GCD(_, _)
GCD(a, b) == IF b = 0 THEN a ELSE GCD(b, a % b)

\* n/d in lowest terms, d # 0.
Rat(n, d) ==
    LET s == IF d < 0 THEN -1 ELSE 1
        g == GCD(Abs(n), Abs(d))
    IN  <<(s * n) \div g, (s * d) \div g>>

Zero == <<0, 1>>
One == <<1, 1>>

RAdd(a, b) == Rat(a[1] * b[2] + b[1] * a[2], a[2] * b[2])
RSub(a, b) == Rat(a[1] * b[2] - b[1] * a[2], a[2] * b[2])
RMul(a, b) == Rat(a[1] * b[1], a[2] * b[2])
RDiv(a, b) == Rat(a[1] * b[2], a[2] * b[1])
RLe(a, b) == a[1] * b[2] <= b[1] * a[2]
RLt(a, b) == a[1] * b[2] < b[1] * a[2]

\* Variant of clamp: the upper end is not enforced.
clamp_below_only(x, lo, hi) == IF RLt(x, lo) THEN lo ELSE x

\* f32::clamp
clamp(x, lo, hi) == IF RLt(x, lo) THEN lo ELSE IF RLt(hi, x) THEN hi ELSE x

\* Variant of lerp: the weights of the two ends are exchanged.
lerp_swapped(y0, y1, mu) == RAdd(RMul(y0, mu), RMul(y1, RSub(One, mu)))

\* maths::lerp
lerp(y0, y1, mu) == RAdd(RMul(y0, RSub(One, mu)), RMul(y1, mu))

\* ------------------------------------------------------------------------
\* SampleTimer (a timer is a record [sample, samplerate])
\* ------------------------------------------------------------------------
\* The sentinel u64::MAX of time_since; no sample count of the model
\* reaches it.
U64_MAX_SENTINEL == -1
\* f32::MAX, the value time_since returns for the sentinel: larger than
\* every duration of the model.
F32_MAX == <<1000000, 1>>

SampleTimer_new(rate) == [sample |-> 0, samplerate |-> rate]

\* Variant of SampleTimer_inc: the counter is advanced by one more.
SampleTimer_inc_more(t, amt) == [t EXCEPT !.sample = @ + amt + 1]

\* SampleTimer::inc
SampleTimer_inc(t, amt) == [t EXCEPT !.sample = @ + amt]

SampleTimer_reset(t) == [t EXCEPT !.sample = 0]

\* Seconds elapsed since sample_in_past.
time_since(t, sample_in_past) ==
    IF sample_in_past = U64_MAX_SENTINEL
    THEN F32_MAX
    ELSE Rat(t.sample - sample_in_past, t.samplerate)

\* ------------------------------------------------------------------------
\* Envelope
\* ------------------------------------------------------------------------
Off == [tag |-> "Off"]
Bypass == [tag |-> "Bypass"]
Held(level, start) == [tag |-> "Held", level |-> level, start |-> start]
Released(level, start) == [tag |-> "Released", level |-> level, start |-> start]

Envelope_new(attack, decay, sustain_level, release) ==
    [state |-> Off, attack |-> attack, decay |-> decay,
     sustain_level |-> sustain_level, release |-> release]

\* Variant of get_Held: the attack ramp starts from zero, not from the level
\* at hold.
get_Held_from_zero(e, timer) ==
    LET elapsed == time_since(timer, e.state.start)
        attack_completed == clamp(RDiv(elapsed, e.attack), Zero, One)
        decay_completed == clamp(RDiv(RSub(elapsed, e.attack), e.decay), Zero, One)
        attack_amount == lerp(Zero, One, attack_completed)
        decay_amount == lerp(Zero, RSub(One, e.sustain_level), decay_completed)
    IN  RSub(attack_amount, decay_amount)

\* Variant of get_Held: the decay ramp ends at zero, not at the sustain
\* level.
get_Held_decay_to_zero(e, timer) ==
    LET elapsed == time_since(timer, e.state.start)
        attack_completed == clamp(RDiv(elapsed, e.attack), Zero, One)
        decay_completed ==
            clamp(RDiv(RSub(elapsed, e.attack), e.decay), Zero, One)
        attack_amount == lerp(e.state.level, One, attack_completed)
        decay_amount == lerp(Zero, One, decay_completed)
    IN  RSub(attack_amount, decay_amount)

\* Envelope::get, the Held arm.
get_Held(e, timer) ==
    LET elapsed == time_since(timer, e.state.start)
        attack_completed == clamp(RDiv(elapsed, e.attack), Zero, One)
        decay_completed == clamp(RDiv(RSub(elapsed, e.attack), e.decay), Zero, One)
        attack_amount == lerp(e.state.level, One, attack_completed)
        decay_amount == lerp(Zero, RSub(One, e.sustain_level), decay_completed)
    IN  RSub(attack_amount, decay_amount)

\* Variant of get_Released: the completed fraction is not clamped.
get_Released_unclamped(e, timer) ==
    LET elapsed == time_since(timer, e.state.start)
        completed == RDiv(elapsed, e.release)
    IN  lerp(e.state.level, Zero, completed)

\* Envelope::get, the Released arm.
get_Released(e, timer) ==
    LET elapsed == time_since(timer, e.state.start)
        completed == clamp(RDiv(elapsed, e.release), Zero, One)
    IN  lerp(e.state.level, Zero, completed)

\* Envelope::get
get(e, timer) ==
    CASE e.state.tag = "Held" -> get_Held(e, timer)
      [] e.state.tag = "Released" -> get_Released(e, timer)
      [] e.state.tag = "Bypass" -> One
      [] e.state.tag = "Off" -> Zero

\* Variant of hold: the start recorded is the sample after the current one.
hold_at_next_sample(e, timer) ==
    [e EXCEPT !.state = Held(get(e, timer), timer.sample + 1)]

\* Variant of hold: the attack starts from zero, the current level is not
\* taken.
hold_from_zero(e, timer) == [e EXCEPT !.state = Held(Zero, timer.sample)]

\* Envelope::hold
hold(e, timer) == [e EXCEPT !.state = Held(get(e, timer), timer.sample)]

\* Variant of release: the release starts from the full level, the current
\* level is not taken.
release_from_full(e, timer) ==
    [e EXCEPT !.state = Released(One, timer.sample)]

\* Envelope::release
release(e, timer) == [e EXCEPT !.state = Released(get(e, timer), timer.sample)]

\* Envelope::disable
disable(e) == [e EXCEPT !.state = Off]

\* Envelope::bypass
bypass(e) == [e EXCEPT !.state = Bypass]

\* ------------------------------------------------------------------------
\* Waveforms: phase, circle, polygon (a Vec2 is a pair <<x, y>>)
\* ------------------------------------------------------------------------
\* What a call leaves: the value it returns, or a panic.
Returned(x) == [panic |-> FALSE, value |-> x]
Panicked == [panic |-> TRUE, value |-> Zero]

\* f32::floor of a value that is not negative (also the cast `as u64`).
floor(x) == x[1] \div x[2]

\* (counter.samplerate() / freq) as u64: the cast saturates, so the
\* quotient by a frequency of 0, +infinity, gives u64::MAX.
period(freq, counter) ==
    IF freq = Zero
    THEN U64_MAX_SENTINEL
    ELSE floor(RDiv(Rat(counter.samplerate, 1), freq))

\* a % b on u64, b not 0 (no sample count of the model reaches u64::MAX).
rem(a, b) == IF b = U64_MAX_SENTINEL THEN a ELSE a % b

\* synthesis::phase: the remainder by a period of 0 panics.
phase(freq, counter) ==
    IF period(freq, counter) = 0
    THEN Panicked
    ELSE Returned(RDiv(RMul(Rat(rem(counter.sample, period(freq, counter)), 1),
                            freq),
                       Rat(counter.samplerate, 1)))

\* synthesis::circle, (sin, cos) of p turns, for p a multiple of a quarter
\* turn, where both are rational.
circle(p) ==
    LET q == ((4 * p[1]) \div p[2]) % 4
    IN  CASE q = 0 -> <<Zero, One>>
          [] q = 1 -> <<One, Zero>>
          [] q = 2 -> <<Zero, <<-1, 1>>>>
          [] q = 3 -> <<<<-1, 1>>, Zero>>

\* vec2::add
vec2_add(a, b) == <<RAdd(a[1], b[1]), RAdd(a[2], b[2])>>

\* vec2::scale
vec2_scale(v, s) == <<RMul(v[1], s), RMul(v[2], s)>>

\* vec2::lerp
vec2_lerp(a, b, alpha) ==
    vec2_add(vec2_scale(a, alpha), vec2_scale(b, RSub(One, alpha)))

\* synthesis::polygon
polygon(n, p) ==
    LET step == RDiv(One, n)
        steps == RDiv(p, step)
        current == Rat(floor(steps), 1)
        current_p == RMul(step, current)
        progress == RSub(steps, current)
        next_p == RAdd(current_p, step)
        c1 == circle(current_p)
        c2 == circle(next_p)
    IN  vec2_lerp(c1, c2, progress)

\* The waveform state of the engine, where the functions are not followed.
NoWave == [called |-> "none"]

\* ------------------------------------------------------------------------
\* Configuration (Opts) the engine is constructed from
\* ------------------------------------------------------------------------
\* opts.voices
OptVoices == 0 .. MAX_VOICES + 1
\* opts.sample_rate, in samples per second
SampleRates == {2}
\* opts.attack, opts.decay, opts.release: seconds, positive (parse_duration
\* floors them to f32::EPSILON)
Attacks == {<<1, 1>>}
Decays == {<<1, 1>>}
Releases == {<<1, 1>>}
\* opts.sustain
Sustains == {<<1, 2>>}

\* ------------------------------------------------------------------------
\* Inputs of the MIDI callback
\* ------------------------------------------------------------------------
Notes == {C0, 13}
Velocities == {64}

\* What MidiMessage::try_from makes of the bytes received: a NoteOn, a
\* NoteOff, another MIDI message, or an error.
MidiMessages ==
    [kind : {"NoteOn"}, note : Notes, velocity : Velocities]
    \cup [kind : {"NoteOff"}, note : Notes]
    \cup {[kind |-> "Other"], [kind |-> "Err"]}

\* A player who presses keys and releases none: NoteOn messages only, over
\* more notes than the pool has voices.
PressedNotes == {C0, 13, 14, 15}
NoteOnMessages == [kind : {"NoteOn"}, note : PressedNotes, velocity : Velocities]

\* enum Message
NoteOn(note, level) == [type |-> "NoteOn", note |-> note, level |-> level]
NoteOff(note) == [type |-> "NoteOff", note |-> note]

VARIABLES
    num_voices,      \* do_audio: num_voices
    voices,          \* do_audio: voices, a sequence of Voice records
    next_voice_idx,  \* do_audio: next_voice_idx
    timer,           \* do_audio: timer, the global SampleTimer
    channel,         \* the mpsc channel: the messages sent and not yet
                     \* received, each a record [id, msg]; id numbers the
                     \* messages in the order of the sends
    pc,              \* audio thread: "idle", or "drain" (at try_recv)
    frames_left,     \* frames of the current buffer not yet completed
    out,             \* per-voice amplitude of the last frame mixed
    sent,            \* history: ids of the messages sent, in order
    applied,         \* history: ids of the messages applied, in order
    last_applied,    \* history: the last message applied, <<>> before the first
    distinct_ons,    \* history: [ok, notes]; ok while every message applied
                     \* was a NoteOn for a note not applied before, notes
                     \* the notes of these NoteOns
    assigned,        \* history: how often each voice was chosen by a NoteOn
    frame_idx,       \* history: index in its buffer of the frame in progress
    sent_at_begin,   \* history: Len(sent) when the current render call began
    queued_at_begin, \* history: the messages in the channel when the
                     \* current render call began (outside a render call
                     \* the three are 0, 0 and empty)
    last_applied_at, \* history: timer.sample when the last message was
                     \* applied, -1 before the first
    wave,            \* the waveform functions on their own: their inputs
                     \* and the last value of each (NoWave in the engine)
    configured       \* history: opts.voices, where the specification
                     \* follows it (NotFollowed elsewhere)

vars == <<num_voices, voices, next_voice_idx, timer, channel, pc, frames_left,
          out, sent, applied, last_applied, distinct_ons, assigned,
          frame_idx, sent_at_begin, queued_at_begin, last_applied_at, wave,
          configured>>

\* Variant of NumVoices: a configured count that is not 0 is taken as it is.
NumVoices_unclamped(opt_voices) ==
    IF opt_voices = 0 THEN MAX_VOICES ELSE opt_voices

\* do_audio: num_voices
NumVoices(opt_voices) ==
    IF opt_voices = 0
    THEN MAX_VOICES
    ELSE IF opt_voices < 1 THEN 1
         ELSE IF opt_voices > MAX_VOICES THEN MAX_VOICES ELSE opt_voices

\* do_audio: the voices as constructed
InitVoices(n, rate, attack, decay, sustain, rel) ==
    [i \in 1 .. n |->
        [note |-> C0,
         level |-> Zero,
         envelope |-> Envelope_new(attack, decay, sustain, rel),
         lfo_timer |-> SampleTimer_new(rate)]]

\* do_audio up to the closures it returns: the state of the engine
\* constructed from opts.voices = v, the sample rate and the envelope
\* parameters.
Constructed(v, rate, a, d, s, r) ==
    /\ num_voices = NumVoices(v)
    /\ voices = InitVoices(NumVoices(v), rate, a, d, s, r)
    /\ next_voice_idx = 0
    /\ timer = SampleTimer_new(rate)
    /\ channel = <<>>
    /\ pc = "idle"
    /\ frames_left = 0
    /\ out = [i \in 1 .. NumVoices(v) |-> Zero]
    /\ sent = <<>>
    /\ applied = <<>>
    /\ last_applied = <<>>
    /\ distinct_ons = [ok |-> TRUE, notes |-> {}]
    /\ assigned = [i \in 1 .. NumVoices(v) |-> 0]
    /\ frame_idx = 0
    /\ sent_at_begin = 0
    /\ queued_at_begin = <<>>
    /\ last_applied_at = -1

\* The value of configured where opts.voices is not followed.
NotFollowed == -1

Init ==
    \E v \in OptVoices, rate \in SampleRates, a \in Attacks, d \in Decays,
       s \in Sustains, r \in Releases :
        /\ Constructed(v, rate, a, d, s, r)
        /\ configured = NotFollowed
        /\ wave = NoWave

\* ------------------------------------------------------------------------
\* Input thread: handle_midi_input
\* ------------------------------------------------------------------------
\* The message handle_midi_input sends for a decoded MIDI message.
MessageOf(midi) ==
    IF midi.kind = "NoteOn"
    THEN NoteOn(midi.note, Rat(midi.velocity, U7_MAX))
    ELSE NoteOff(midi.note)

\* Variant of send: the message is put in front of the queued ones.
send_front(ch, m) == <<m>> \o ch

\* Variant of send: a message sent while another one is queued is lost.
send_lossy(ch, m) == IF Len(ch) >= 1 THEN ch ELSE Append(ch, m)

\* mpsc::Sender::send
send(ch, m) == Append(ch, m)

\* Variant of handle_midi_input: the channel holds one message, and send
\* waits while it is full.
handle_midi_input_bounded(received) ==
    \E midi \in received :
        /\ Len(sent) < MaxSent
        /\ midi.kind \in {"NoteOn", "NoteOff"} => Len(channel) < 1
        /\ IF midi.kind \in {"NoteOn", "NoteOff"}
           THEN /\ channel' = send(channel, [id |-> Len(sent) + 1,
                                             msg |-> MessageOf(midi)])
                /\ sent' = Append(sent, Len(sent) + 1)
           ELSE UNCHANGED <<channel, sent>>
        /\ UNCHANGED <<wave, configured, num_voices, voices, next_voice_idx,
                       timer, pc, frames_left, out, applied, last_applied,
                       last_applied_at, distinct_ons, assigned, frame_idx,
                       sent_at_begin, queued_at_begin>>

\* handle_midi_input, for the MIDI messages in received.
handle_midi_input(received) ==
    \E midi \in received :
        /\ Len(sent) < MaxSent
        /\ IF midi.kind \in {"NoteOn", "NoteOff"}
           THEN /\ channel' = send(channel, [id |-> Len(sent) + 1,
                                             msg |-> MessageOf(midi)])
                /\ sent' = Append(sent, Len(sent) + 1)
           ELSE UNCHANGED <<channel, sent>>
        /\ UNCHANGED <<wave, configured, num_voices, voices, next_voice_idx,
                       timer, pc, frames_left, out, applied, last_applied,
                       last_applied_at, distinct_ons, assigned, frame_idx,
                       sent_at_begin, queued_at_begin>>

\* ------------------------------------------------------------------------
\* Audio thread: the output callback and the audio closure
\* ------------------------------------------------------------------------
\* voices.iter_mut().find(|v| v.note == note): index of the first voice
\* holding note, 0 when there is none.
find(vs, note) ==
    IF \E i \in DOMAIN vs : vs[i].note = note
    THEN CHOOSE i \in DOMAIN vs :
            /\ vs[i].note = note
            /\ \A j \in DOMAIN vs : vs[j].note = note => i <= j
    ELSE 0

\* Variant of chosen_voice: the voice at the cursor is taken even when
\* another voice holds the note.
chosen_voice_steals(vs, idx, note) == (idx % Len(vs)) + 1

\* Index (from 1) of the voice a NoteOn takes.
chosen_voice(vs, idx, note) ==
    IF find(vs, note) # 0 THEN find(vs, note) ELSE (idx % Len(vs)) + 1

\* next_voice_idx after a NoteOn: incremented in the None arm and again
\* after the match.
idx_after_note_on(vs, idx, note) ==
    IF find(vs, note) # 0 THEN idx + 1 ELSE idx + 2

\* Variant of note_on: the voice's LFO timer is left running.
note_on_keeps_lfo(vs, idx, note, level, t) ==
    [vs EXCEPT ![chosen_voice(vs, idx, note)] =
        [note |-> note,
         level |-> level,
         envelope |-> hold(@.envelope, t),
         lfo_timer |-> @.lfo_timer]]

\* The Message::NoteOn arm on the voices.
note_on(vs, idx, note, level, t) ==
    [vs EXCEPT ![chosen_voice(vs, idx, note)] =
        [note |-> note,
         level |-> level,
         envelope |-> hold(@.envelope, t),
         lfo_timer |-> SampleTimer_reset(@.lfo_timer)]]

\* Variant of note_off: only the first voice holding the note is released.
note_off_first(vs, note, t) ==
    [i \in DOMAIN vs |->
        IF i = find(vs, note)
        THEN [vs[i] EXCEPT !.envelope = release(@, t)]
        ELSE vs[i]]

\* The Message::NoteOff arm on the voices.
note_off(vs, note, t) ==
    [i \in DOMAIN vs |->
        IF vs[i].note = note
        THEN [vs[i] EXCEPT !.envelope = release(@, t)]
        ELSE vs[i]]

\* The output callback is invoked with a buffer of k frames.
render_begin ==
    \E k \in 0 .. MaxFrames :
        /\ pc = "idle"
        /\ IF k = 0
           THEN UNCHANGED <<pc, frames_left, frame_idx, sent_at_begin,
                            queued_at_begin>>
           ELSE /\ pc' = "drain"
                /\ frames_left' = k
                /\ frame_idx' = 0
                /\ sent_at_begin' = Len(sent)
                /\ queued_at_begin' = [j \in 1 .. Len(channel) |-> channel[j].msg]
        /\ UNCHANGED <<wave, configured, num_voices, voices, next_voice_idx,
                       timer, channel, out, sent, applied, last_applied,
                       last_applied_at, distinct_ons, assigned>>

\* Variant of after_try_recv: a message queued behind the one returned is
\* dropped with it.
after_try_recv_skips(ch) == IF Len(ch) >= 2 THEN Tail(Tail(ch)) ELSE Tail(ch)

\* mpsc::Receiver::try_recv on a channel that is not empty: the message
\* returned, and what the channel is left with.
try_recv(ch) == Head(ch)

after_try_recv(ch) == Tail(ch)

\* History: distinct_ons after m is applied.
distinct_ons_after(d, m) ==
    IF d.ok /\ m.type = "NoteOn" /\ m.note \notin d.notes
    THEN [ok |-> TRUE, notes |-> d.notes \cup {m.note}]
    ELSE [ok |-> FALSE, notes |-> {}]

\* receiver.try_recv() returns Ok(message): the message is applied.
try_recv_ok ==
    /\ pc = "drain"
    /\ channel # <<>>
    /\ LET m == try_recv(channel).msg IN
        /\ channel' = after_try_recv(channel)
        /\ applied' = Append(applied, try_recv(channel).id)
        /\ last_applied' = <<m>>
        /\ last_applied_at' = timer.sample
        /\ distinct_ons' = distinct_ons_after(distinct_ons, m)
        /\ IF m.type = "NoteOn"
           THEN /\ voices' = note_on(voices, next_voice_idx, m.note, m.level, timer)
                /\ next_voice_idx' = idx_after_note_on(voices, next_voice_idx, m.note)
                /\ assigned' = [assigned EXCEPT
                                  ![chosen_voice(voices, next_voice_idx, m.note)] = @ + 1]
           ELSE /\ voices' = note_off(voices, m.note, timer)
                /\ UNCHANGED <<next_voice_idx, assigned>>
    /\ UNCHANGED <<wave, configured, num_voices, timer, pc, frames_left, out,
                   sent, frame_idx, sent_at_begin, queued_at_begin>>

\* The mix loop on one voice: its lfo_timer advances when it sounds.
mix_voice(v, t) ==
    IF RLt(Zero, get(v.envelope, t))
    THEN [v EXCEPT !.lfo_timer = SampleTimer_inc(@, 1)]
    ELSE v

\* Variant of amplitude: the envelope does not gate the voice.
amplitude_ungated(v, t) == v.level

\* The factor the mix loop scales a voice's waveform by; zero for a voice
\* that is skipped.
amplitude(v, t) ==
    IF RLt(Zero, get(v.envelope, t))
    THEN RMul(get(v.envelope, t), v.level)
    ELSE Zero

\* Variant of render_frame: the frame is computed without waiting for the
\* channel to be empty.
render_frame_undrained(limit) ==
    /\ pc = "drain"
    /\ timer.sample < limit
    /\ out' = [i \in DOMAIN voices |-> amplitude(voices[i], timer)]
    /\ voices' = [i \in DOMAIN voices |-> mix_voice(voices[i], timer)]
    /\ timer' = SampleTimer_inc(timer, 1)
    /\ frames_left' = frames_left - 1
    /\ IF frames_left = 1
       THEN /\ pc' = "idle"
            /\ frame_idx' = 0
            /\ sent_at_begin' = 0
            /\ queued_at_begin' = <<>>
       ELSE /\ pc' = "drain"
            /\ frame_idx' = frame_idx + 1
            /\ UNCHANGED <<sent_at_begin, queued_at_begin>>
    /\ UNCHANGED <<wave, configured, num_voices, next_voice_idx, channel,
                   sent, applied, last_applied, last_applied_at,
                   distinct_ons, assigned>>

\* Variant of render_frame: the channel is drained for the first frame of
\* a buffer only.
render_frame_per_buffer(limit) ==
    /\ pc = "drain"
    /\ (frame_idx > 0 \/ channel = <<>>)
    /\ timer.sample < limit
    /\ out' = [i \in DOMAIN voices |-> amplitude(voices[i], timer)]
    /\ voices' = [i \in DOMAIN voices |-> mix_voice(voices[i], timer)]
    /\ timer' = SampleTimer_inc(timer, 1)
    /\ frames_left' = frames_left - 1
    /\ IF frames_left = 1
       THEN /\ pc' = "idle"
            /\ frame_idx' = 0
            /\ sent_at_begin' = 0
            /\ queued_at_begin' = <<>>
       ELSE /\ pc' = "drain"
            /\ frame_idx' = frame_idx + 1
            /\ UNCHANGED <<sent_at_begin, queued_at_begin>>
    /\ UNCHANGED <<wave, configured, num_voices, next_voice_idx, channel,
                   sent, applied, last_applied, last_applied_at,
                   distinct_ons, assigned>>

\* receiver.try_recv() returns Err(Empty): the drain loop ends, the mix loop
\* computes the frame, the output callback writes it and advances the
\* timer.  Nothing after the failed try_recv touches the channel, so the
\* rest of the frame is one step.  limit bounds the sample counter.
render_frame(limit) ==
    /\ pc = "drain"
    /\ channel = <<>>
    /\ timer.sample < limit
    /\ out' = [i \in DOMAIN voices |-> amplitude(voices[i], timer)]
    /\ voices' = [i \in DOMAIN voices |-> mix_voice(voices[i], timer)]
    /\ timer' = SampleTimer_inc(timer, 1)
    /\ frames_left' = frames_left - 1
    /\ IF frames_left = 1
       THEN /\ pc' = "idle"
            /\ frame_idx' = 0
            /\ sent_at_begin' = 0
            /\ queued_at_begin' = <<>>
       ELSE /\ pc' = "drain"
            /\ frame_idx' = frame_idx + 1
            /\ UNCHANGED <<sent_at_begin, queued_at_begin>>
    /\ UNCHANGED <<wave, configured, num_voices, next_voice_idx, channel,
                   sent, applied, last_applied, last_applied_at,
                   distinct_ons, assigned>>

Next ==
    \/ handle_midi_input(MidiMessages)
    \/ render_begin
    \/ try_recv_ok
    \/ render_frame(MaxSample)

Spec == Init /\ [][Next]_vars

\* The engine when only NoteOn messages are received.
NextNoteOns ==
    \/ handle_midi_input(NoteOnMessages)
    \/ render_begin
    \/ try_recv_ok
    \/ render_frame(MaxSample)

SpecNoteOns == Init /\ [][NextNoteOns]_vars

\* ------------------------------------------------------------------------
\* The engine when one key is pressed and released, followed for more
\* samples than a release lasts
\* ------------------------------------------------------------------------
CycleNotes == {13}
CycleReleases == {<<1, 2>>, <<1, 1>>}

CycleMessages ==
    [kind : {"NoteOn"}, note : CycleNotes, velocity : Velocities]
    \cup [kind : {"NoteOff"}, note : CycleNotes]

InitCycle ==
    \E v \in OptVoices, rate \in SampleRates, a \in Attacks, d \in Decays,
       s \in Sustains, r \in CycleReleases :
        /\ Constructed(v, rate, a, d, s, r)
        /\ configured = NotFollowed
        /\ wave = NoWave

NextCycle ==
    \/ handle_midi_input(CycleMessages)
    \/ render_begin
    \/ try_recv_ok
    \/ render_frame(MaxCycleSample)

SpecNoteCycle == InitCycle /\ [][NextCycle]_vars

\* ------------------------------------------------------------------------
\* The engine with the configured voice count followed, for keys pressed
\* and released
\* ------------------------------------------------------------------------
PoolMessages ==
    [kind : {"NoteOn"}, note : {13, 14}, velocity : Velocities]
    \cup [kind : {"NoteOff"}, note : {13}]

InitPool ==
    \E v \in OptVoices, rate \in SampleRates, a \in Attacks, d \in Decays,
       s \in Sustains, r \in Releases :
        /\ Constructed(v, rate, a, d, s, r)
        /\ configured = v
        /\ wave = NoWave

NextPool ==
    \/ handle_midi_input(PoolMessages)
    \/ render_begin
    \/ try_recv_ok
    \/ render_frame(MaxSample)

SpecPool == InitPool /\ [][NextPool]_vars

\* ------------------------------------------------------------------------
\* One envelope on its own: the operations of Envelope in any order, under
\* a timer that advances, for a range of durations and sustain levels
\* ------------------------------------------------------------------------
EnvAttacks == {<<1, 4>>, <<1, 2>>, <<1, 1>>}
EnvDecays == {<<1, 2>>, <<1, 1>>}
EnvReleases == {<<1, 2>>, <<1, 1>>, <<3, 2>>}
EnvSustains == {Zero, <<1, 2>>, One}

InitEnv ==
    \E rate \in SampleRates, a \in EnvAttacks, d \in EnvDecays,
       s \in EnvSustains, r \in EnvReleases :
        /\ Constructed(1, rate, a, d, s, r)
        /\ configured = NotFollowed
        /\ wave = NoWave

EnvUnchanged ==
    UNCHANGED <<wave, configured, num_voices, next_voice_idx, channel, pc,
                frames_left, out, sent, applied, last_applied,
                last_applied_at, distinct_ons, assigned, frame_idx,
                sent_at_begin, queued_at_begin>>

Envelope_hold ==
    /\ voices' = [voices EXCEPT ![1].envelope = hold(@, timer)]
    /\ UNCHANGED timer
    /\ EnvUnchanged

Envelope_release ==
    /\ voices' = [voices EXCEPT ![1].envelope = release(@, timer)]
    /\ UNCHANGED timer
    /\ EnvUnchanged

Envelope_disable ==
    /\ voices' = [voices EXCEPT ![1].envelope = disable(@)]
    /\ UNCHANGED timer
    /\ EnvUnchanged

Envelope_bypass ==
    /\ voices' = [voices EXCEPT ![1].envelope = bypass(@)]
    /\ UNCHANGED timer
    /\ EnvUnchanged

\* timer += 1
SampleTimer_tick ==
    /\ timer.sample < MaxEnvSample
    /\ timer' = SampleTimer_inc(timer, 1)
    /\ UNCHANGED voices
    /\ EnvUnchanged

NextEnv ==
    \/ Envelope_hold
    \/ Envelope_release
    \/ Envelope_disable
    \/ Envelope_bypass
    \/ SampleTimer_tick

SpecEnv == InitEnv /\ [][NextEnv]_vars

\* ------------------------------------------------------------------------
\* The waveform functions on their own: phase of a timer that advances and
\* polygon, for a range of sample rates, frequencies, corner counts and
\* phases
\* ------------------------------------------------------------------------
\* cpal sample rates, in samples per second
WaveRates == {2, 4}
\* note.to_freq_f32() and opts.mod_rate, in Hz
WaveFreqs == {Zero, <<1, 2>>, One, <<2, 1>>, <<3, 1>>, <<5, 1>>}
\* opts.corners (the vertices of these polygons are rational)
WaveCorners == {<<2, 1>>, <<4, 1>>}
\* the phase polygon is given, in turns
WavePhases == {Rat(k, 8) : k \in 0 .. 7}

InitWave ==
    \E rate \in WaveRates, freq \in WaveFreqs, n \in WaveCorners :
        /\ Constructed(1, rate, One, One, One, One)
        /\ configured = NotFollowed
        /\ wave = [called |-> "none", freq |-> freq, n |-> n, p |-> Zero,
                   phase |-> Returned(Zero), point |-> <<Zero, Zero>>]

WaveUnchanged ==
    UNCHANGED <<configured, num_voices, voices, next_voice_idx, channel, pc,
                frames_left, out, sent, applied, last_applied,
                last_applied_at, distinct_ons, assigned, frame_idx,
                sent_at_begin, queued_at_begin>>

\* phase(freq, &timer); a panic ends the thread.
Wave_phase ==
    /\ ~wave.phase.panic
    /\ wave' = [wave EXCEPT !.called = "phase",
                            !.phase = phase(wave.freq, timer)]
    /\ UNCHANGED timer
    /\ WaveUnchanged

\* polygon(n, p)
Wave_polygon ==
    \E p \in WavePhases :
        /\ ~wave.phase.panic
        /\ wave' = [wave EXCEPT !.called = "polygon",
                                !.p = p,
                                !.point = polygon(wave.n, p)]
        /\ UNCHANGED timer
        /\ WaveUnchanged

\* timer += 1
Wave_tick ==
    /\ ~wave.phase.panic
    /\ timer.sample < MaxWaveSample
    /\ timer' = SampleTimer_inc(timer, 1)
    /\ UNCHANGED wave
    /\ WaveUnchanged

NextWave ==
    \/ Wave_phase
    \/ Wave_polygon
    \/ Wave_tick

SpecWave == InitWave /\ [][NextWave]_vars

\* ------------------------------------------------------------------------
\* Helpers of the properties
\* ------------------------------------------------------------------------
Last(h) == h[Len(h)]

\* The ids of the messages in the channel, in order.
Queued == [k \in 1 .. Len(channel) |-> channel[k].id]

\* The step applies a message to the pool.
Applies == applied' # applied

\* The message a step that applies one applies.
Applying == Head(channel).msg

\* The step computes a frame.
ComputesFrame == timer'.sample # timer.sample

\* ------------------------------------------------------------------------
\* Properties of the event channel and the render loop (C2 and C3 are
\* checked under SpecNoteOns, the others under Spec)
\* ------------------------------------------------------------------------

\* C1: the messages applied to the pool, followed by the messages still
\* queued, are the messages sent, in the order sent: nothing is applied
\* twice, lost or reordered, whatever the interleaving of sends and render
\* calls.
C1_AppliedInOrder == applied \o Queued = sent

\* C1 witness: in one render call two messages were applied, the one queued
\* when the call began and one sent during it, and a third one is queued.
C1_Witness ==
    /\ Len(applied) = 2
    /\ Len(channel) = 1
    /\ frame_idx = 1
    /\ Len(queued_at_begin) = 1
    /\ sent_at_begin = 1

\* C2 (as claimed): after num_voices + 1 NoteOn messages for pairwise
\* distinct notes on a fresh pool, exactly one voice was assigned twice, every
\* other voice exactly once, and the pool has num_voices voices.
C2_OneVoiceStolen ==
    (distinct_ons.ok /\ Cardinality(distinct_ons.notes) = num_voices + 1)
        => /\ Cardinality({i \in DOMAIN assigned : assigned[i] = 2}) = 1
           /\ \A i \in DOMAIN assigned : assigned[i] \in {1, 2}
           /\ Len(voices) = num_voices

\* C3: a step that applies NoteOn(note, level) at sample t leaves a voice
\* holding note with that velocity level, its envelope Held from sample t
\* and its LFO timer at 0.
C3_NoteOnNeverRejected ==
    [][(Applies /\ Applying.type = "NoteOn")
        => \E i \in DOMAIN voices' :
            /\ voices'[i].note = Applying.note
            /\ voices'[i].level = Applying.level
            /\ voices'[i].envelope.state.tag = "Held"
            /\ voices'[i].envelope.state.start = timer.sample
            /\ voices'[i].lfo_timer.sample = 0]_vars

\* C3 witness: in a pool of two voices the last message applied is a
\* NoteOn, every voice is Held, and the voice holding its note was taken
\* again while it was sounding.
C3_Witness ==
    /\ num_voices = 2
    /\ last_applied # <<>>
    /\ Last(last_applied).type = "NoteOn"
    /\ \A i \in DOMAIN voices : voices[i].envelope.state.tag = "Held"
    /\ \E i \in DOMAIN voices :
        /\ voices[i].note = Last(last_applied).note
        /\ assigned[i] >= 2
        /\ voices[i].envelope.state.start > 0
        /\ RLt(Zero, voices[i].envelope.state.level)
        /\ voices[i].lfo_timer.sample = 0

C5_PendingAppliedBeforeFirstSample ==
    [][(ComputesFrame /\ frame_idx = 0)
        => /\ Len(applied) >= sent_at_begin
           /\ \A k \in 1 .. sent_at_begin : applied[k] = sent[k]]_vars

\* C5 witness: the first frame of the first render call was computed, and
\* two messages were queued when that call began.
C5_Witness ==
    /\ timer.sample = 1
    /\ frame_idx = 1
    /\ pc = "drain"
    /\ sent_at_begin = 2
    /\ Len(queued_at_begin) = 2
    /\ Len(applied) >= 2

\* C6: a step that applies NoteOff(note) at sample t puts the envelope of
\* every voice holding note into Released from sample t with the level the
\* voice had, and changes no note, no velocity level, no envelope of a
\* voice holding another note, and not the steal cursor.
C6_NoteOffEffect ==
    [][(Applies /\ Applying.type = "NoteOff")
        => /\ DOMAIN voices' = DOMAIN voices
           /\ next_voice_idx' = next_voice_idx
           /\ \A i \in DOMAIN voices :
                /\ voices'[i].note = voices[i].note
                /\ voices'[i].level = voices[i].level
                /\ voices[i].note = Applying.note
                    => voices'[i].envelope.state =
                         Released(get(voices[i].envelope, timer), timer.sample)
                /\ voices[i].note # Applying.note
                    => voices'[i].envelope = voices[i].envelope]_vars

\* C6 witness: the last message applied is a NoteOff, it released a
\* sounding voice, and another voice holding another note is still Held.
C6_Witness ==
    /\ last_applied # <<>>
    /\ Last(last_applied).type = "NoteOff"
    /\ \E i, j \in DOMAIN voices :
        /\ voices[i].note = Last(last_applied).note
        /\ voices[i].envelope.state.tag = "Released"
        /\ RLt(Zero, voices[i].envelope.state.level)
        /\ voices[j].note # Last(last_applied).note
        /\ voices[j].envelope.state.tag = "Held"

\* NoteOn(n) then NoteOff(n) were the last two messages in the channel
\* when the current render call began, and nothing was sent since.
NoteOnThenOffPending ==
    /\ Len(sent) = sent_at_begin
    /\ Len(queued_at_begin) >= 2
    /\ queued_at_begin[Len(queued_at_begin) - 1].type = "NoteOn"
    /\ Last(queued_at_begin).type = "NoteOff"
    /\ Last(queued_at_begin).note = queued_at_begin[Len(queued_at_begin) - 1].note

\* C7: when the last two messages queued as a render call begins are
\* NoteOn(n) then NoteOff(n) and nothing is sent before the first frame,
\* that frame is computed with a voice holding n, and every voice holding n
\* Released from the current sample.
C7_LastMessageWins ==
    [][(ComputesFrame /\ frame_idx = 0 /\ NoteOnThenOffPending)
        => /\ \E i \in DOMAIN voices : voices[i].note = Last(queued_at_begin).note
           /\ \A i \in DOMAIN voices :
                voices[i].note = Last(queued_at_begin).note
                    => /\ voices[i].envelope.state.tag = "Released"
                       /\ voices[i].envelope.state.start = timer.sample]_vars

\* C7 witness: a voice was Held by an earlier render call; NoteOn and
\* NoteOff for its note were both queued when the next call began, and after
\* the first frame of that call the voice is Released from that frame's
\* sample with the level it had reached.
C7_Witness ==
    /\ pc = "drain"
    /\ frame_idx = 1
    /\ NoteOnThenOffPending
    /\ Len(applied) = Len(sent)
    /\ \E i \in DOMAIN voices :
        /\ voices[i].note = Last(queued_at_begin).note
        /\ assigned[i] = 2
        /\ voices[i].envelope.state.tag = "Released"
        /\ voices[i].envelope.state.start = timer.sample - 1
        /\ RLt(Zero, voices[i].envelope.state.level)

\* ------------------------------------------------------------------------
\* Properties of the envelope (checked under SpecEnv)
\* ------------------------------------------------------------------------

\* C8: hold() twice at the same sample leaves the envelope in the state,
\* and at the level, that hold() once leaves it in.
C8_HoldIdempotent ==
    LET e == voices[1].envelope
        once == hold(e, timer)
        twice == hold(once, timer)
    IN  /\ twice = once
        /\ get(twice, timer) = get(once, timer)

\* C8 witness: hold() has just acted, at a later sample than 0, on an
\* envelope whose level was strictly between 0 and 1.
C8_Witness ==
    LET st == voices[1].envelope.state
    IN  /\ st.tag = "Held"
        /\ st.start = timer.sample
        /\ timer.sample > 0
        /\ RLt(Zero, st.level)
        /\ RLt(st.level, One)

C10_ReleaseReachesZero ==
    LET e == voices[1].envelope
    IN  (/\ e.state.tag = "Released"
         /\ RLe(e.release, time_since(timer, e.state.start)))
            => get(e, timer) = Zero

\* C10 witness: an envelope released from a level above 0 exactly one
\* release duration ago.
C10_Witness ==
    LET e == voices[1].envelope
    IN  /\ e.state.tag = "Released"
        /\ RLt(Zero, e.state.level)
        /\ time_since(timer, e.state.start) = e.release

\* C17: hold() and release() keep the level: in every envelope state and
\* at every sample, get() right after hold() or release() returns what
\* get() returned right before it.
C17_LevelContinuous ==
    LET e == voices[1].envelope
    IN  /\ get(hold(e, timer), timer) = get(e, timer)
        /\ get(release(e, timer), timer) = get(e, timer)

\* C17 witness: release() has just acted on an envelope in the middle of a
\* ramp, at a level strictly between 0 and 1 that is not the sustain level.
C17_Witness ==
    LET e == voices[1].envelope
    IN  /\ e.state.tag = "Released"
        /\ e.state.start = timer.sample
        /\ timer.sample > 0
        /\ RLt(Zero, e.state.level)
        /\ RLt(e.state.level, One)
        /\ e.state.level # e.sustain_level
        /\ get(e, timer) = e.state.level

NoteCycleDone ==
    /\ Len(sent) = 2
    /\ Len(applied) = 2
    /\ Last(last_applied).type = "NoteOff"
    /\ \E i \in DOMAIN voices :
        /\ assigned[i] = 1
        /\ voices[i].note = Last(last_applied).note
        /\ \A j \in DOMAIN voices : j # i => assigned[j] = 0

\* The last frame computed is the frame of sample timer.sample - 1; it was
\* computed after the last message was applied when that sample is not
\* before last_applied_at.  Seconds from the last message to that frame:
SinceLastApplied == Rat(timer.sample - 1 - last_applied_at, timer.samplerate)

\* C11: after NoteOn(n, v) then NoteOff(n) and no other message, every
\* frame computed release seconds or more after the NoteOff was applied is
\* silent: every voice's envelope level is 0 and no voice contributes to
\* the mix.
C11_SilentAfterRelease ==
    (/\ NoteCycleDone
     /\ timer.sample - 1 >= last_applied_at
     /\ RLe(voices[1].envelope.release, SinceLastApplied))
        => \A i \in DOMAIN voices :
            /\ out[i] = Zero
            /\ get(voices[i].envelope, [timer EXCEPT !.sample = @ - 1]) = Zero

\* C11 witness: the note was sounding when its NoteOff was applied, in a
\* later frame than its NoteOn, and a frame was computed a release or more
\* after the NoteOff.
C11_Witness ==
    /\ NoteCycleDone
    /\ last_applied_at >= 1
    /\ RLe(voices[1].envelope.release, SinceLastApplied)
    /\ \E i \in DOMAIN voices :
        /\ assigned[i] = 1
        /\ RLt(Zero, voices[i].level)
        /\ voices[i].envelope.state.tag = "Released"
        /\ voices[i].envelope.state.start = last_applied_at
        /\ RLt(Zero, voices[i].envelope.state.level)
        /\ out[i] = Zero

\* ------------------------------------------------------------------------
\* Properties of the waveform functions (checked under SpecWave)
\* ------------------------------------------------------------------------

\* C12 (as claimed): phase never takes a remainder by zero: for every
\* sample rate and every frequency >= 0, also 0 and frequencies above the
\* sample rate, the period used as the modulus is at least one sample and
\* the call returns.
C12_PeriodAtLeastOne ==
    wave.called = "phase"
        => /\ period(wave.freq, timer) # 0
           /\ ~wave.phase.panic

\* p is the start of a segment of the polygon with n corners.
AtVertex(n, p) == RMul(p, n)[2] = 1

\* C13 (as claimed): at the start of segment k, p = k/n, polygon(n, p) is
\* the vertex circle(k/n); in particular polygon(n, 0) = circle(0).
C13_PolygonStartsAtVertex ==
    (wave.called = "polygon" /\ AtVertex(wave.n, wave.p))
        => wave.point = circle(wave.p)

\* ------------------------------------------------------------------------
\* Properties of the voice pool (checked under SpecPool)
\* ------------------------------------------------------------------------
Min(a, b) == IF a < b THEN a ELSE b
Max(a, b) == IF a > b THEN a ELSE b

\* The pool size claimed for a configured voice count.
ClaimedPoolSize(v) == IF v = 0 THEN MAX_VOICES ELSE Min(Max(v, 1), MAX_VOICES)

Sends == sent' # sent

\* C19: the global sample counter advances by one with every frame
\* computed and is changed by nothing else: a step that completes a frame
\* of the buffer adds exactly one to it, so a render call that fills k
\* frames adds k; a step that applies a NoteOn or a NoteOff, sends a message
\* or begins a render call leaves it as it is (a NoteOn resets the LFO
\* timer of its voice only); its sample rate never changes.
C19_SampleCounterMonotonic ==
    [][/\ timer'.samplerate = timer.samplerate
       /\ timer'.sample \in {timer.sample, timer.sample + 1}
       /\ (timer'.sample = timer.sample + 1)
            <=> (pc = "drain" /\ frames_left' = frames_left - 1)
       /\ (pc = "drain" /\ pc' = "drain")
            => timer'.sample - frame_idx' = timer.sample - frame_idx
       /\ Applies => timer' = timer
       /\ Sends => timer' = timer]_vars

\* C19 witness: in the second frame of a buffer a NoteOn was applied to a
\* voice that was sounding: the LFO timer of the voice is back at 0 and the
\* global counter is where the first frame left it.
C19_Witness ==
    /\ pc = "drain"
    /\ frame_idx = 1
    /\ timer.sample >= 1
    /\ last_applied_at = timer.sample
    /\ Last(last_applied).type = "NoteOn"
    /\ \E i \in DOMAIN voices :
        /\ assigned[i] = 2
        /\ voices[i].envelope.state.tag = "Held"
        /\ voices[i].envelope.state.start = timer.sample
        /\ RLt(Zero, voices[i].envelope.state.level)
        /\ voices[i].lfo_timer.sample = 0

\* C20: a voice that no NoteOn has chosen contributes nothing to any
\* frame, whatever messages were applied, NoteOff messages for the note it
\* was constructed with included: its envelope level is 0, the mix loop
\* has skipped it in every frame (its LFO timer never advanced) and its
\* factor in the last frame is 0.
C20_UnchosenVoiceSilent ==
    \A i \in DOMAIN voices :
        assigned[i] = 0
            => /\ get(voices[i].envelope, timer) = Zero
               /\ out[i] = Zero
               /\ voices[i].lfo_timer.sample = 0

\* C20 witness: a voice never chosen was released by a NoteOff for note C0
\* and a frame was computed since, in which another voice was sounding.
C20_Witness ==
    \E i, j \in DOMAIN voices :
        /\ assigned[i] = 0
        /\ voices[i].note = C0
        /\ voices[i].envelope.state.tag = "Released"
        /\ voices[i].envelope.state.start < timer.sample
        /\ out[i] = Zero
        /\ assigned[j] >= 1
        /\ RLt(Zero, out[j])

\* No voice's envelope has left Off: no NoteOn was applied, and no NoteOff
\* for the note the voices are constructed with.
NoVoiceTriggered ==
    \A i \in DOMAIN voices : voices[i].envelope.state.tag = "Off"

C16_StealAdvancesByOne ==
    [][(Applies /\ Applying.type = "NoteOn" /\ find(voices, Applying.note) = 0)
        => /\ voices'[(next_voice_idx % num_voices) + 1].note = Applying.note
           /\ assigned'[(next_voice_idx % num_voices) + 1]
                = assigned[(next_voice_idx % num_voices) + 1] + 1
           /\ next_voice_idx' = next_voice_idx + 1]_vars

\* ------------------------------------------------------------------------
\* Re-triggers and the notes of the pool (checked under Spec)
\* ------------------------------------------------------------------------

\* C21 (as claimed): a step that applies a NoteOn for a note some voice
\* holds re-triggers the first voice holding it and nothing else: no other
\* voice changes, and next_voice_idx is left as it is.
C21_RetriggerKeepsCursor ==
    [][(Applies /\ Applying.type = "NoteOn" /\ find(voices, Applying.note) # 0)
        => /\ \A i \in DOMAIN voices :
                i # find(voices, Applying.note) => voices'[i] = voices[i]
           /\ voices'[find(voices, Applying.note)].note = Applying.note
           /\ next_voice_idx' = next_voice_idx]_vars

\* The voices a NoteOn has chosen.
Chosen == {i \in DOMAIN voices : assigned[i] > 0}

\* Voice i is one the mix loop does not skip.
Sounding(i) == RLt(Zero, get(voices[i].envelope, timer))

C23_LevelInUnitRange ==
    \A i \in DOMAIN voices :
        LET e == voices[i].envelope
        IN  (/\ RLt(Zero, e.attack) /\ RLt(Zero, e.decay)
             /\ RLt(Zero, e.release)
             /\ RLe(Zero, e.sustain_level) /\ RLe(e.sustain_level, One))
            => /\ RLe(Zero, get(e, timer))
               /\ RLe(get(e, timer), One)
               /\ e.state.tag \in {"Held", "Released"}
                    => RLe(Zero, e.state.level) /\ RLe(e.state.level, One)

\* C23 witness: an envelope released at a later sample than 0 from a level
\* strictly between 0 and 1 is part of the way through its release.
C23_Witness ==
    LET e == voices[1].envelope
    IN  /\ e.state.tag = "Released"
        /\ e.state.start > 0
        /\ RLt(e.state.level, One)
        /\ RLt(get(e, timer), e.state.level)
        /\ RLt(Zero, get(e, timer))

\* ------------------------------------------------------------------------
\* Start samples of the envelopes (checked under Spec)
\* ------------------------------------------------------------------------

\* C24: the start sample stored in a Held or Released envelope is never
\* later than the current sample of the global timer, so sample - start in
\* time_since is never negative; the voice's own LFO timer, which a NoteOn
\* resets to 0, may be behind the start sample.
C24_StartNotAfterTimer ==
    \A i \in DOMAIN voices :
        LET st == voices[i].envelope.state
        IN  st.tag \in {"Held", "Released"}
                => /\ 0 <= st.start
                   /\ st.start <= timer.sample
                   /\ timer.sample - st.start >= 0

\* C24 witness: a voice held at a later sample than 0 whose LFO timer was
\* reset and is behind the envelope's start sample, next to a voice
\* released at an earlier sample than the current one.
C24_Witness ==
    /\ num_voices = 2
    /\ \E i, j \in DOMAIN voices :
        /\ voices[i].envelope.state.tag = "Held"
        /\ voices[i].envelope.state.start > 0
        /\ voices[i].lfo_timer.sample < voices[i].envelope.state.start
        /\ voices[j].envelope.state.tag = "Released"
        /\ voices[j].envelope.state.start < timer.sample

\* ------------------------------------------------------------------------
\* Delivery of the messages (checked under SpecLive)
\* ------------------------------------------------------------------------

\* The output callback is invoked for a buffer of at least one frame.
RenderCall == render_begin /\ pc' = "drain"

\* The guard of try_recv_ok and what it does to the channel; of the actions
\* of Next only try_recv_ok takes a message off the channel.
Drained ==
    /\ pc = "drain"
    /\ channel # <<>>
    /\ channel' = after_try_recv(channel)

\* The guard of render_frame and what it does to the timer; of the actions
\* of Next only render_frame advances the timer.
FrameDone ==
    /\ pc = "drain"
    /\ channel = <<>>
    /\ timer.sample < MaxSample
    /\ timer' = SampleTimer_inc(timer, 1)

\* What the input thread receives while the delivery of its messages is
\* followed: one key pressed and released, and MIDI messages it ignores.
LiveMessages == CycleMessages \cup {[kind |-> "Other"], [kind |-> "Err"]}

NextLive ==
    \/ handle_midi_input(LiveMessages)
    \/ render_begin
    \/ try_recv_ok
    \/ render_frame(MaxSample)

\* The engine with an audio callback that keeps being invoked: a call for
\* at least one frame is made whenever the stream is idle, and a call
\* under way takes its next step, try_recv_ok or render_frame.  The two
\* conditions on the steps of a call are stated on Drained and FrameDone,
\* which are enabled exactly when try_recv_ok and render_frame are and
\* describe the same steps of NextLive.
SpecLive ==
    /\ Init
    /\ [][NextLive]_vars
    /\ WF_vars(RenderCall)
    /\ WF_channel(Drained)
    /\ WF_timer(FrameDone)

\* The engine of SpecLive when nothing obliges the audio callback to run.
SpecLiveUnfair == Init /\ [][NextLive]_vars

\* Every step that takes a message off the channel is a try_recv_ok step
\* and every step that advances the timer is a render_frame step, and
\* conversely.
FairnessOnTheCallSteps ==
    [][/\ Drained <=> try_recv_ok
       /\ FrameDone <=> render_frame(MaxSample)]_vars

\* C25: every message the input thread has sent is eventually applied to
\* the voices: once k messages are sent, k messages are eventually applied.
C25_EventuallyApplied ==
    \A j \in 1 .. MaxSent : (Len(sent) >= j) ~> (Len(applied) >= j)

\* C25 witness: a call found two messages queued, a third one was sent
\* while the call was under way, and all of them are applied.
C25_Witness ==
    /\ pc = "drain"
    /\ Len(queued_at_begin) >= 2
    /\ Len(sent) > sent_at_begin
    /\ Len(sent) = MaxSent
    /\ applied = sent
    /\ channel = <<>>

====
